---- MODULE Spec2Model ----
(***************************************************************************)
(* A model of loulou.py: the session loop of run_game (score, ledger of    *)
(* equation frames, scoop cadence, sprint phases, difficulty ramp, win and *)
(* loss) together with SidebarManager and EquationFrame.                   *)
(*                                                                         *)
(* Units.  Times are integers in milliseconds (20.0 s is 20000).           *)
(* Probabilities and random.random() draws are integers in tenths (0.5 is  *)
(* 5).  Answer values and solutions are integers in halves (1.5 is 3):     *)
(* every value the program handles is a multiple of 0.5.                   *)
(*                                                                         *)
(* One loop iteration of run_game is split in two kinds of steps: Submit   *)
(* and Click handle one event of the iteration's event loop (lines         *)
(* 757-816), and Tick runs the rest of the iteration (lines 818-897) and   *)
(* then the clock.tick and the reading of `now` that open the next one     *)
(* (lines 754-755).                                                        *)
(*                                                                         *)
(* generate_equation is modelled on its own (specification SpecGen): the   *)
(* variable gen holds one call of it, its inputs and random draws are      *)
(* chosen at the start, and each step of the transformation loop is one    *)
(* action.  The coefficients aL, aR are kept in units of 1/16 and bL, bR   *)
(* in units of 1/32: a call makes at most 4 steps, each of which may halve *)
(* them, so every value the call computes is such a multiple and the       *)
(* float arithmetic of the program is exact on them.                       *)
(*                                                                         *)
(* build_normal_answers and build_giant_answers are modelled on their own  *)
(* too (specifications SpecAns and SpecAnsFair): the variable ans holds    *)
(* one call, and each iteration of a filling loop is one action.           *)
(***************************************************************************)
EXTENDS Integers, Sequences, FiniteSets, TLC

VARIABLES
    score,            \* run_game: score
    frames,           \* sidebar.frames, a sequence of EquationFrame
    scoops,           \* len(scoops): the number of scoops ever placed
    scoop_interval,   \* ms
    last_scoop_time,  \* ms, the placement timer
    last_rate_incr,   \* ms
    in_sprint,
    sprint_phase,     \* 0 Inactive, 1 Lead, 2 Burst, 3 Giant, 4 Countdown, 5 Cooldown
    sprints_count,
    giant_prob,       \* tenths
    sprint_start_t,   \* ms
    quick_placed,
    countdown_start,  \* ms (None until the first Giant phase, never read before)
    flag_sound_10,
    game_over,
    game_over_reason,
    clock,            \* time.time() as read at line 755 of the current iteration,
                      \* counted from the construction of the session
    handled,          \* events handled so far in the current iteration
    deadline,         \* the clock value after which the run is not followed further
    burst_t,          \* history: the clock when the sprint last entered Burst
    last_place_t,     \* history: the clock when place_scoop last ran (-1: never)
    tally,            \* history: frames placed since the last sprint entry
    ramp_t,           \* history: the clock when the interval last shrank (-1: never)
    cooldown_t,       \* history: the clock of the last Cooldown phase (-1: never)
    sprint_t,         \* history: the clock when the last sprint began (-1: never)
    gen,              \* one call of generate_equation (idle in the session model)
    ans,              \* one call of build_normal_answers or build_giant_answers
    ev                \* history: what the last step did

vars == <<score, frames, scoops, scoop_interval, last_scoop_time, last_rate_incr,
          in_sprint, sprint_phase, sprints_count, giant_prob, sprint_start_t,
          quick_placed, countdown_start, flag_sound_10, game_over,
          game_over_reason, clock, handled, deadline, burst_t, last_place_t,
          tally, ramp_t, cooldown_t, sprint_t, gen, ans, ev>>

----------------------------------------------------------------------------
(* Bounds of the model *)

\* A run is followed for Horizon seconds of clock time from the start of a
\* session or from an early position, and for ShortHorizon seconds from a
\* position late in a session.
Horizon == 10
ShortHorizon == 3

\* At most MaxEvents events are handled in one loop iteration.
MaxEvents == 1

\* A ledger followed on its own gets at most MaxLedger frames.
MaxLedger == 4

\* A sprint is followed for SprintHorizon seconds of clock time from its
\* start.
SprintHorizon == 30

\* A session whose player does nothing is followed for IdleHorizon seconds.
IdleHorizon == 260

\* The durations of one loop iteration (ms) the model draws from.  clock.tick(FPS)
\* makes an iteration last at least 1/30 s; it lasts longer when the process is
\* delayed.
TickDurations == {1000, 4000}

\* The outcomes of random.random() the model draws from (tenths): 0.0 and 0.5.
RandomDraws == {0, 5}

\* The solutions random.choice(VALID_SOLUTIONS) is drawn from in the session
\* model (halves): 1.5.
SolutionDraws == {3}

----------------------------------------------------------------------------
(* Configuration *)

MAX_EQUATION_UNITS == 20
MAX_VISIBLE_EQUATIONS_SIDEBAR == 6
INVINCIBLE_MODE == FALSE
INITIAL_SCOOP_INTERVAL == 20000
RATE_INCREASE_INTERVAL == 15000
RATE_INCREASE_PERCENT == 10
SPRINT_TRIGGER_PROB == 5
GIANT_SCOOP_BASE_PROB == 1
GIANT_SCOOP_MAX_PROB == 3
GIANT_PROB_INCREMENT == 1
MIN_SCOOP_INTERVAL == 500
WIN_SCORE == 120
COUNTDOWN_MS == 3000

WON_REASON == "Maximum height reached. Well done!"
WRONG_REASON == "Wrong answer"
OVERFLOW_REASON == "Too many unsolved equations!"

----------------------------------------------------------------------------
(* Helpers *)

Abs(x) == IF x < 0 THEN -x ELSE x
Min(a, b) == IF a < b THEN a ELSE b
Max(a, b) == IF a > b THEN a ELSE b

\* What a step did.  op is "init", "tick", "submit", "click" or "restart";
\* phase is the sprint phase the step began in; a tick tells whether the
\* capacity check ended the session, whether a cadence scoop was placed, how
\* many Burst scoops, whether the Giant scoop, whether the interval shrank; a
\* submission tells the frame (fid), the value clicked and the frame's
\* solution, whether it was taken as correct, refilled the ledger or reached a
\* milestone; started tells whether the step began a sprint.
NoEv ==
    [op |-> "init", overflow |-> FALSE, cadence |-> FALSE, burst |-> 0,
     giant |-> FALSE, ramp |-> FALSE, started |-> FALSE, fid |-> -1,
     correct |-> FALSE, refill |-> FALSE, milestone |-> FALSE,
     val |-> 0, sol |-> 0, phase |-> 0]

NoTally == [normal |-> 0, giant |-> 0]

----------------------------------------------------------------------------
(* EquationFrame and SidebarManager *)

\* EquationFrame.__init__.  id stands for the identity of the object: the index
\* of the scoop created with it.
EquationFrame(id, correct, is_giant) ==
    [id |-> id, correct |-> correct, is_giant |-> is_giant]

\* EquationFrame.units
units(f) == IF f.is_giant THEN 2 ELSE 1

\* Mutant of check_answer: compares the magnitudes only.
check_answer_Magnitude(f, val) == Abs(Abs(val) - Abs(f.correct)) < 1

\* EquationFrame.check_answer: abs(val - self.correct) < 1e-9.  Both are
\* multiples of 0.5, so the difference is below 1e-9 only when it is below one
\* half.
check_answer(f, val) == Abs(val - f.correct) < 1

\* SidebarManager.add_equation
add_equation(fs, f) == Append(fs, f)

\* Mutant of remove_equation: drops the first frame that looks like f, the
\* same object or not.
remove_equation_Alike(fs, f) ==
    IF \E j \in 1..Len(fs) : fs[j].correct = f.correct /\ fs[j].is_giant = f.is_giant
    THEN LET j == CHOOSE k \in 1..Len(fs) :
                      /\ fs[k].correct = f.correct /\ fs[k].is_giant = f.is_giant
                      /\ \A m \in 1..(k - 1) :
                            ~(fs[m].correct = f.correct /\ fs[m].is_giant = f.is_giant)
         IN  SubSeq(fs, 1, j - 1) \o SubSeq(fs, j + 1, Len(fs))
    ELSE fs

\* Mutant of remove_equation: drops the frame at the top of the ledger.
remove_equation_First(fs, f) == IF Len(fs) = 0 THEN fs ELSE Tail(fs)

\* SidebarManager.remove_equation: list.remove drops the first element that is
\* the frame, and the guard makes the absent case a no-op.
remove_equation(fs, f) ==
    IF \E j \in 1..Len(fs) : fs[j] = f
    THEN LET j == CHOOSE k \in 1..Len(fs) :
                      fs[k] = f /\ \A m \in 1..(k - 1) : fs[m] # f
         IN  SubSeq(fs, 1, j - 1) \o SubSeq(fs, j + 1, Len(fs))
    ELSE fs

RECURSIVE total_units(_)
\* SidebarManager.total_units
total_units(fs) ==
    IF Len(fs) = 0 THEN 0 ELSE units(Head(fs)) + total_units(Tail(fs))

\* The units of the frames above the i-th one
UnitsAbove(fs, i) == total_units(SubSeq(fs, 1, i - 1))

\* SidebarManager.handle_click: a frame takes units * SCREEN_HEIGHT / 6 of the
\* sidebar and its buttons start at half its height, so a click inside the
\* window reaches the buttons of frame i only when they start above the bottom.
Clickable(fs, i) ==
    2 * UnitsAbove(fs, i) + units(fs[i]) < 2 * MAX_VISIBLE_EQUATIONS_SIDEBAR

\* The answer values a click on frame f can deliver: among f.answers are the
\* solution, its negation and the solution plus or minus 1.
AnswerButtons(f) == {f.correct, -f.correct, f.correct + 2} \ {0}

----------------------------------------------------------------------------
(* generate_equation *)

\* VALID_SOLUTIONS (lines 45-51), in halves: val runs from -10.0 by 0.5 while
\* val <= 10.0, and 0 is left out.
RECURSIVE ValidFrom_Open(_)
\* Mutant of ValidFrom: the loop stops before 10.0.
ValidFrom_Open(val) ==
    IF val < 20
    THEN (IF Abs(val) > 0 THEN {val} ELSE {}) \cup ValidFrom_Open(val + 1)
    ELSE {}

RECURSIVE ValidFrom(_)
ValidFrom(val) ==
    IF val <= 20
    THEN (IF Abs(val) > 0 THEN {val} ELSE {}) \cup ValidFrom(val + 1)
    ELSE {}

VALID_SOLUTIONS == ValidFrom(-20)

\* The most steps a call makes: randint(1, 3) plus the giant bonus.
MaxSteps == 3 + 1

\* aL and aR are counted in units of 1/AUnit, bL and bR in units of 1/BUnit.
AUnit == 2 ^ MaxSteps
BUnit == 2 * AUnit

\* The numbers of steps random.randint can give at a score, before the giant
\* bonus (lines 182-188)
StepChoices(sc) ==
    IF sc < 50 THEN {1}
    ELSE IF sc < 80 THEN 1..2
    ELSE 1..3

\* Mutant of possible_transforms: the multiplication comes at score 25.
possible_transforms_Early(sc) ==
    IF sc < 10 THEN {"ADD_C"}
    ELSE IF sc < 25 THEN {"SUB_X"}
    ELSE IF sc < 65 THEN {"ADD_C", "SUB_X", "MUL"}
    ELSE {"ADD_C", "SUB_X", "MUL", "DIV_2"}

\* Mutant of possible_transforms: the subtraction of x joins the addition.
possible_transforms_Cumulative(sc) ==
    IF sc < 10 THEN {"ADD_C"}
    ELSE IF sc < 35 THEN {"ADD_C", "SUB_X"}
    ELSE IF sc < 65 THEN {"ADD_C", "SUB_X", "MUL"}
    ELSE {"ADD_C", "SUB_X", "MUL", "DIV_2"}

\* possible_transforms (lines 192-201)
possible_transforms(sc) ==
    IF sc < 10 THEN {"ADD_C"}
    ELSE IF sc < 25 THEN {"SUB_X"}
    ELSE IF sc < 35 THEN {"ADD_C", "SUB_X"}
    ELSE IF sc < 65 THEN {"ADD_C", "SUB_X", "MUL"}
    ELSE {"ADD_C", "SUB_X", "MUL", "DIV_2"}

\* No call in progress.
NoGen ==
    [pc |-> "idle", score |-> 0, is_giant |-> FALSE, solution |-> 0,
     steps |-> 0, step_i |-> 0, aL |-> 0, bL |-> 0, aR |-> 0, bR |-> 0,
     done |-> <<>>]

\* The call generate_equation(sc, is_giant) up to the loop (lines 173-201):
\* LHS = x, RHS = solution; n is the outcome of random.randint.
BeginGen(sc, is_giant, solution, n) ==
    [pc |-> "steps", score |-> sc, is_giant |-> is_giant,
     solution |-> solution,
     steps |-> n + (IF is_giant THEN 1 ELSE 0), step_i |-> 0,
     aL |-> 1 * AUnit, bL |-> 0,
     aR |-> 0, bR |-> (solution * BUnit) \div 2,
     done |-> <<>>]

\* One more step of the loop done with transformation t.
Stepped(g, t) == [g EXCEPT !.step_i = @ + 1, !.done = Append(@, t)]

\* ADD_C (lines 207-211): c is added to both constants.
ADD_C(g, c) ==
    [Stepped(g, "ADD_C") EXCEPT !.bL = @ + c * BUnit, !.bR = @ + c * BUnit]

\* Mutant of SUB_X: c*x is taken from the left side only.
SUB_X_LeftOnly(g, c) ==
    [Stepped(g, "SUB_X") EXCEPT !.aL = @ - c * AUnit]

\* SUB_X (lines 213-218): c*x is subtracted from both sides.
SUB_X(g, c) ==
    [Stepped(g, "SUB_X") EXCEPT !.aL = @ - c * AUnit, !.aR = @ - c * AUnit]

\* MUL (lines 220-228): the four coefficients are multiplied by factor.
MUL(g, factor) ==
    [Stepped(g, "MUL") EXCEPT !.aL = @ * factor, !.bL = @ * factor,
                              !.aR = @ * factor, !.bR = @ * factor]

\* x / fac for fac = 2 * sign, sign being 1 or -1
Halved(x, sign) == (x * sign) \div 2

\* Mutant of DIV_2: the division is the floor division (//), to whole numbers.
DIV_2_Floor(g, sign) ==
    [Stepped(g, "DIV_2") EXCEPT
        !.aL = ((@ * sign) \div (2 * AUnit)) * AUnit,
        !.bL = ((@ * sign) \div (2 * BUnit)) * BUnit,
        !.aR = ((@ * sign) \div (2 * AUnit)) * AUnit,
        !.bR = ((@ * sign) \div (2 * BUnit)) * BUnit]

\* DIV_2 (lines 230-239): the four coefficients are divided by fac = 2 * sign.
DIV_2(g, sign) ==
    [Stepped(g, "DIV_2") EXCEPT !.aL = Halved(@, sign), !.bL = Halved(@, sign),
                                !.aR = Halved(@, sign), !.bR = Halved(@, sign)]

\* evaluate_side(a, b, x) = a*x + b (lines 266-271) at x = g.solution, in
\* units of 1/BUnit.
evaluate_side(a, b, g) == a * g.solution + b

----------------------------------------------------------------------------
(* build_normal_answers and build_giant_answers *)

\* No call in progress.  set is ans_set or primaries, list is final_list, out
\* the list returned.
NoAns ==
    [pc |-> "idle", kind |-> "none", correct |-> 0, set |-> {},
     list |-> <<>>, out |-> <<>>]

\* Mutant of maybe_add: 0 is added like any value.
maybe_add_Zero(S, val) == S \cup {val}

\* maybe_add (lines 349-351): 0 is not added.
maybe_add(S, val) == IF Abs(val) > 0 THEN S \cup {val} ELSE S

\* build_normal_answers up to the loop (lines 348-362): r1 and r2 are the
\* outcomes of random.random(), in tenths; 1 is 2 halves.
NormalStart(correct, r1, r2) ==
    LET s1 == maybe_add({}, correct)
        s2 == maybe_add(s1, -correct)
        s3 == maybe_add(s2, IF r1 < 5 THEN correct + 2 ELSE correct - 2)
    IN  maybe_add(s3, IF r2 < 5 THEN -correct + 2 ELSE -correct - 2)

\* list(S): the members of S one after the other (here by growing value).
Listed(S) ==
    [i \in 1..Cardinality(S) |->
        CHOOSE x \in S : Cardinality({y \in S : y < x}) = i - 1]

\* random.shuffle: the orders the model follows are the rotations of the list
\* by k places.
Shuffled(l, k) ==
    IF Len(l) = 0 THEN l
    ELSE [i \in 1..Len(l) |-> l[((i - 1 + k) % Len(l)) + 1]]

\* l[:n]
Take(l, n) == SubSeq(l, 1, Min(n, Len(l)))

\* The members of list l
Members(l) == {l[i] : i \in 1..Len(l)}

\* full (lines 383-386): the primaries and their opposites.
Mirrored(primaries) == primaries \cup {-q : q \in primaries}

\* Mutant of PadWith: no value is ever appended.
PadWith_Never(l, c) == l

\* Mutant of PadWith: the value is appended whether held or not.
PadWith_Unchecked(l, c) == Append(l, c)

\* One iteration of the padding loop (lines 391-394)
PadWith(l, c) == IF c \notin Members(l) THEN Append(l, c) ELSE l

----------------------------------------------------------------------------
(* run_game: the state as one record, and the blocks of the loop *)

\* The local variables of run_game (and the history variables).
Cur ==
    [score |-> score, frames |-> frames, scoops |-> scoops,
     scoop_interval |-> scoop_interval, last_scoop_time |-> last_scoop_time,
     last_rate_incr |-> last_rate_incr, in_sprint |-> in_sprint,
     sprint_phase |-> sprint_phase, sprints_count |-> sprints_count,
     giant_prob |-> giant_prob, sprint_start_t |-> sprint_start_t,
     quick_placed |-> quick_placed, countdown_start |-> countdown_start,
     flag_sound_10 |-> flag_sound_10, game_over |-> game_over,
     game_over_reason |-> game_over_reason, clock |-> clock,
     handled |-> handled, deadline |-> deadline, burst_t |-> burst_t,
     last_place_t |-> last_place_t, tally |-> tally, ramp_t |-> ramp_t,
     cooldown_t |-> cooldown_t, sprint_t |-> sprint_t, ev |-> ev]

\* run_game, lines 644-714: the state a session is constructed with.
Fresh ==
    [score |-> 0, frames |-> <<>>, scoops |-> 0,
     scoop_interval |-> INITIAL_SCOOP_INTERVAL, last_scoop_time |-> 0,
     last_rate_incr |-> 0, in_sprint |-> FALSE, sprint_phase |-> 0,
     sprints_count |-> 0, giant_prob |-> 0, sprint_start_t |-> 0,
     quick_placed |-> 0, countdown_start |-> 0, flag_sound_10 |-> FALSE,
     game_over |-> FALSE, game_over_reason |-> "", clock |-> 0,
     handled |-> 0, deadline |-> Horizon * 1000, burst_t |-> 0,
     last_place_t |-> -1, tally |-> NoTally, ramp_t |-> -1,
     cooldown_t |-> -1, sprint_t |-> -1, ev |-> NoEv]

\* now = time.time() + INITIAL_SCOOP_INTERVAL (line 755)
NowOf(s) == s.clock + INITIAL_SCOOP_INTERVAL

\* place_scoop (lines 717-739).  r is the outcome of random.random() and sol
\* the solution generate_equation draws; the frame gets the giant flag
\* generate_equation returns, which is the one it was given.
place_scoop(s, force_giant, r, sol) ==
    LET is_giant == force_giant \/ (s.sprints_count >= 2 /\ r < s.giant_prob)
    IN  [s EXCEPT !.frames = add_equation(@, EquationFrame(s.scoops, sol, is_giant)),
                  !.scoops = @ + 1,
                  !.last_place_t = s.clock,
                  !.tally = IF is_giant THEN [@ EXCEPT !.giant = @ + 1]
                                        ELSE [@ EXCEPT !.normal = @ + 1]]

\* Mutant of StartSprint: giant_prob grows from the second sprint on.
StartSprint_Threshold(s, start_t) ==
    [s EXCEPT !.in_sprint = TRUE,
              !.sprint_phase = 1,
              !.sprints_count = @ + 1,
              !.giant_prob = IF s.sprints_count + 1 >= 2
                             THEN Min(GIANT_SCOOP_MAX_PROB, @ + GIANT_PROB_INCREMENT)
                             ELSE @,
              !.sprint_start_t = start_t,
              !.quick_placed = 0,
              !.tally = NoTally,
              !.sprint_t = s.clock]

\* The sprint entry both paths share (lines 778-784 and 846-852); start_t is
\* time.time() on the answer path and now on the placement path.
StartSprint(s, start_t) ==
    [s EXCEPT !.in_sprint = TRUE,
              !.sprint_phase = 1,
              !.sprints_count = @ + 1,
              !.giant_prob = IF @ > 0
                             THEN Min(GIANT_SCOOP_MAX_PROB, @ + GIANT_PROB_INCREMENT)
                             ELSE @,
              !.sprint_start_t = start_t,
              !.quick_placed = 0,
              !.tally = NoTally,
              !.sprint_t = s.clock]

\* Mutant of EndsWith5: every multiple of 5.
EndsWith5_Five(n) == n % 5 = 0

\* str(score).endswith("5"): the last decimal digit of a non-negative score.
EndsWith5(n) == n % 10 = 5

\* Mutant of CheckStackLimit: the frames are counted, not their units.
CheckStackLimit_Frames(s) ==
    IF ~s.game_over /\ Len(s.frames) > MAX_EQUATION_UNITS
    THEN [s EXCEPT !.game_over = TRUE, !.game_over_reason = OVERFLOW_REASON]
    ELSE s

\* Mutant of CheckStackLimit: the session ends at the limit already.
CheckStackLimit_AtLimit(s) ==
    IF ~s.game_over /\ total_units(s.frames) >= MAX_EQUATION_UNITS
    THEN [s EXCEPT !.game_over = TRUE, !.game_over_reason = OVERFLOW_REASON]
    ELSE s

\* Check eq stack limit (lines 831-836)
CheckStackLimit(s) ==
    IF ~s.game_over /\ total_units(s.frames) > MAX_EQUATION_UNITS
    THEN [s EXCEPT !.game_over = TRUE, !.game_over_reason = OVERFLOW_REASON]
    ELSE s

\* Mutant of ScoopDue: the timer is read against time.time(), not against now.
ScoopDue_Raw(s, now) == (s.clock - s.last_scoop_time) >= s.scoop_interval

\* Whether the placement timer has run out (line 840)
ScoopDue(s, now) == (now - s.last_scoop_time) >= s.scoop_interval

\* Mutant of NormalPlacement: the game_over guard is missing.
NormalPlacement_NoOverGuard(s, now, r, sol, trig) ==
    IF ~s.in_sprint /\ ScoopDue(s, now)
    THEN LET p == place_scoop([s EXCEPT !.last_scoop_time = now], FALSE, r, sol)
         IN  IF EndsWith5(p.score) /\ trig < SPRINT_TRIGGER_PROB
             THEN StartSprint(p, now)
             ELSE p
    ELSE s

\* Normal scoop placement (lines 838-852)
NormalPlacement(s, now, r, sol, trig) ==
    IF ~s.game_over /\ ~s.in_sprint /\ ScoopDue(s, now)
    THEN LET p == place_scoop([s EXCEPT !.last_scoop_time = now], FALSE, r, sol)
         IN  IF EndsWith5(p.score) /\ trig < SPRINT_TRIGGER_PROB
             THEN StartSprint(p, now)
             ELSE p
    ELSE s

\* needed = int(min(elapsed / (total_time * 0.1), 1) * 4) (lines 864-866)
Needed(elapsed, total_time) ==
    IF elapsed * 10 >= total_time THEN 4 ELSE (elapsed * 40) \div total_time

RECURSIVE BurstLoop(_, _, _, _, _)
\* while quick_placed < 4 and quick_placed < needed (lines 868-870); k counts
\* the placements of this run of the loop, to index the random draws.
BurstLoop(s, needed, rs, sols, k) ==
    IF s.quick_placed < 4 /\ s.quick_placed < needed
    THEN BurstLoop([place_scoop(s, FALSE, rs[k], sols[k])
                       EXCEPT !.quick_placed = @ + 1],
                   needed, rs, sols, k + 1)
    ELSE s

\* Mutant of LeadPhase: the Lead has no time budget.
LeadPhase_NoBudget(s, elapsed, total_time) ==
    IF Len(s.frames) = 0
    THEN [s EXCEPT !.sprint_phase = 2, !.burst_t = s.clock]
    ELSE s

\* Sprint phase 1 (lines 858-861): the Lead budget is total_time * (0.25+0.4*4).
LeadPhase(s, elapsed, total_time) ==
    IF Len(s.frames) = 0 \/ elapsed * 100 > total_time * 185
    THEN [s EXCEPT !.sprint_phase = 2, !.burst_t = s.clock]
    ELSE s

\* Sprint phase 2 (lines 862-874)
BurstPhase(s, now, elapsed, total_time, rs, sols) ==
    LET b == BurstLoop(s, Needed(elapsed, total_time), rs, sols, 1)
    IN  IF b.quick_placed >= 4
        THEN [b EXCEPT !.sprint_phase = 3, !.sprint_start_t = now]
        ELSE b

\* Mutant of GiantPhase: the scoop is not forced to be giant.
GiantPhase_Unforced(s, rs, sols) ==
    [place_scoop(s, FALSE, rs[1], sols[1])
        EXCEPT !.sprint_phase = 4, !.countdown_start = s.clock]

\* Sprint phase 3 (lines 875-879)
GiantPhase(s, rs, sols) ==
    [place_scoop(s, TRUE, rs[1], sols[1])
        EXCEPT !.sprint_phase = 4, !.countdown_start = s.clock]

\* Mutant of CountdownPhase: the countdown ends the sprint itself.
CountdownPhase_Skip(s) ==
    IF s.clock - s.countdown_start > COUNTDOWN_MS
    THEN [s EXCEPT !.in_sprint = FALSE, !.sprint_phase = 0]
    ELSE s

\* Sprint phase 4 (lines 880-883)
CountdownPhase(s) ==
    IF s.clock - s.countdown_start > COUNTDOWN_MS
    THEN [s EXCEPT !.sprint_phase = 5]
    ELSE s

\* Sprint phase 5 (lines 886-889)
CooldownPhase(s) ==
    [s EXCEPT !.in_sprint = FALSE, !.sprint_phase = 0, !.last_scoop_time = s.clock,
              !.cooldown_t = s.clock]

\* Sprint (lines 854-889)
Sprint(s, now, rs, sols) ==
    IF ~s.game_over /\ s.in_sprint
    THEN LET elapsed == now - s.sprint_start_t
             total_time == s.scoop_interval * 5
         IN  CASE s.sprint_phase = 1 -> LeadPhase(s, elapsed, total_time)
               [] s.sprint_phase = 2 -> BurstPhase(s, now, elapsed, total_time, rs, sols)
               [] s.sprint_phase = 3 -> GiantPhase(s, rs, sols)
               [] s.sprint_phase = 4 -> CountdownPhase(s)
               [] s.sprint_phase = 5 -> CooldownPhase(s)
               [] OTHER -> s
    ELSE s

\* Mutant of SpeedUp: the floor is missing.
SpeedUp_NoFloor(s, now) ==
    IF ~s.game_over /\ (now - s.last_rate_incr) > RATE_INCREASE_INTERVAL
    THEN [s EXCEPT !.scoop_interval = (@ * (100 - RATE_INCREASE_PERCENT)) \div 100,
                   !.last_rate_incr = now,
                   !.ramp_t = s.clock]
    ELSE s

\* Speed up (lines 892-897)
SpeedUp(s, now) ==
    IF ~s.game_over /\ (now - s.last_rate_incr) > RATE_INCREASE_INTERVAL
    THEN [s EXCEPT !.scoop_interval =
                       Max(MIN_SCOOP_INTERVAL,
                           (@ * (100 - RATE_INCREASE_PERCENT)) \div 100),
                   !.last_rate_incr = now,
                   !.ramp_t = s.clock]
    ELSE s

\* Mutant of TickF: the stack limit is checked after the placements.
TickF_CheckLast(s, dt, rs, sols, trig) ==
    LET now == NowOf(s)
        s2 == NormalPlacement(s, now, rs[1], sols[1], trig)
        s3 == Sprint(s2, now, rs, sols)
        s4 == SpeedUp(s3, now)
        s5 == CheckStackLimit(s4)
    IN  [s5 EXCEPT !.clock = @ + dt,
                   !.handled = 0,
                   !.ev = [NoEv EXCEPT !.op = "tick",
                              !.phase = s.sprint_phase,
                              !.overflow = s5.game_over /\ ~s4.game_over,
                              !.cadence = s2.scoops # s.scoops,
                              !.started = s2.in_sprint /\ ~s.in_sprint,
                              !.burst = IF s2.sprint_phase = 2
                                        THEN s3.scoops - s2.scoops ELSE 0,
                              !.giant = s2.sprint_phase = 3 /\ s3.scoops # s2.scoops,
                              !.ramp = s4.scoop_interval # s3.scoop_interval
                                       \/ s4.last_rate_incr # s3.last_rate_incr]]

\* The rest of one loop iteration after its events (lines 818-897), then the
\* clock.tick of the next iteration, which lasts dt.  rs and sols are the
\* random draws of the placements of this iteration, trig the sprint draw.
TickF(s, dt, rs, sols, trig) ==
    LET now == NowOf(s)
        s1 == CheckStackLimit(s)
        s2 == NormalPlacement(s1, now, rs[1], sols[1], trig)
        s3 == Sprint(s2, now, rs, sols)
        s4 == SpeedUp(s3, now)
    IN  [s4 EXCEPT !.clock = @ + dt,
                   !.handled = 0,
                   !.ev = [NoEv EXCEPT !.op = "tick",
                              !.phase = s.sprint_phase,
                              !.overflow = s1.game_over /\ ~s.game_over,
                              !.cadence = s2.scoops # s1.scoops,
                              !.started = s2.in_sprint /\ ~s1.in_sprint,
                              !.burst = IF s2.sprint_phase = 2
                                        THEN s3.scoops - s2.scoops ELSE 0,
                              !.giant = s2.sprint_phase = 3 /\ s3.scoops # s2.scoops,
                              !.ramp = s4.scoop_interval # s3.scoop_interval
                                       \/ s4.last_rate_incr # s3.last_rate_incr]]

\* Mutant of MilestoneFlag: the flag is never raised.
MilestoneFlag_Keep(sc, flag) == flag

\* The milestone rule (lines 789-795): the flag, then whether the sound plays.
MilestoneFlag(sc, flag) == IF sc % 10 # 0 THEN TRUE ELSE flag
MilestoneHit(sc, flag) == sc > 0 /\ MilestoneFlag(sc, flag) /\ sc % 10 = 0

\* The sprint entry of a correct answer (lines 777-784)
SprintOnAnswer(s, trig) ==
    IF ~s.in_sprint /\ s.score % 10 = 5 /\ trig < SPRINT_TRIGGER_PROB
    THEN StartSprint(s, s.clock)
    ELSE s

\* giant_prob gets its base value from score 50 on (lines 786-787)
GiantFloor(s) ==
    IF s.score >= 50 /\ s.giant_prob < GIANT_SCOOP_BASE_PROB
    THEN [s EXCEPT !.giant_prob = GIANT_SCOOP_BASE_PROB]
    ELSE s

\* Mutant of WinCheck: the threshold has to be passed.
WinCheck_Past(s) ==
    IF s.score > WIN_SCORE
    THEN [s EXCEPT !.game_over = TRUE, !.game_over_reason = WON_REASON]
    ELSE s

\* The win check (lines 797-800)
WinCheck(s) ==
    IF s.score >= WIN_SCORE
    THEN [s EXCEPT !.game_over = TRUE, !.game_over_reason = WON_REASON]
    ELSE s

\* Mutant of RefillDue: the sprint is not looked at.
RefillDue_InSprint(s) == ~s.game_over /\ Len(s.frames) = 0

\* Whether the ledger is refilled after the removal (line 810)
RefillDue(s) == ~s.in_sprint /\ ~s.game_over /\ Len(s.frames) = 0

\* The correct-answer branch (lines 776-811) for frame f
CorrectAnswer(s, f, trig, r, sol) ==
    LET a1 == [s EXCEPT !.score = @ + 1]
        a2 == SprintOnAnswer(a1, trig)
        a3 == GiantFloor(a2)
        hit == MilestoneHit(a3.score, a3.flag_sound_10)
        a4 == [a3 EXCEPT !.flag_sound_10 =
                             IF hit THEN FALSE ELSE MilestoneFlag(a3.score, @)]
        a5 == WinCheck(a4)
        a6 == [a5 EXCEPT !.frames = remove_equation(@, f)]
        a7 == IF RefillDue(a6) THEN place_scoop(a6, FALSE, r, sol) ELSE a6
    IN  [a7 EXCEPT !.ev = [@ EXCEPT !.correct = TRUE,
                              !.started = a2.in_sprint /\ ~s.in_sprint,
                              !.refill = RefillDue(a6),
                              !.milestone = hit]]

\* The wrong-answer branch (lines 813-816)
WrongAnswer(s, f) ==
    [s EXCEPT !.game_over = TRUE, !.game_over_reason = WRONG_REASON]

\* One answer click of a running session (lines 769-816): handle_click gave
\* the frame f and the value val of the button hit.
AnswerF(s, f, val, trig, r, sol) ==
    LET e == [s EXCEPT !.handled = @ + 1,
                       !.ev = [NoEv EXCEPT !.op = "submit", !.fid = f.id,
                                  !.val = val, !.sol = f.correct,
                                  !.phase = s.sprint_phase]]
    IN  IF check_answer(f, val) \/ INVINCIBLE_MODE
        THEN CorrectAnswer(e, f, trig, r, sol)
        ELSE WrongAnswer(e, f)

----------------------------------------------------------------------------
(* Play positions: states of a session reached from Fresh by the loop itself *)

\* One scripted step: a loop iteration of c.dt ms, or a correct answer to the
\* c.i-th frame of the ledger; c.trig is the sprint draw, c.r the giant draw.
ScriptStep(s, c) ==
    IF c.op = "tick"
    THEN TickF(s, c.dt, [k \in 1..4 |-> c.r], [k \in 1..4 |-> 3], c.trig)
    ELSE AnswerF(s, s.frames[c.i], s.frames[c.i].correct, c.trig, c.r, 3)

RECURSIVE ReplayFrom(_, _, _, _)
\* The steps lo..hi of a script, applied in order from s.
ReplayFrom(s, script, lo, hi) ==
    IF lo > hi THEN s
    ELSE IF lo = hi THEN ScriptStep(s, script[lo])
    ELSE LET mid == (lo + hi) \div 2
             half == ReplayFrom(s, script, lo, mid)
         IN  IF half.clock >= 0 THEN ReplayFrom(half, script, mid + 1, hi)
             ELSE half

Replay(s, script) == ReplayFrom(s, script, 1, Len(script))

\* Script steps: an iteration of dt ms, and one whose scoops come out giant
\* when they can; a correct answer to the first frame
\* that starts no sprint; one that starts a sprint when the score allows it.
T(dt) == [op |-> "tick", dt |-> dt, i |-> 0, trig |-> 5, r |-> 5]
TG(dt) == [op |-> "tick", dt |-> dt, i |-> 0, trig |-> 5, r |-> 0]
A == [op |-> "answer", dt |-> 0, i |-> 1, trig |-> 5, r |-> 5]
ASprint == [op |-> "answer", dt |-> 0, i |-> 1, trig |-> 0, r |-> 5]
Times(n, c) == [k \in 1..n |-> c]

\* The player answers 4 frames in the second iteration: score 4, one frame.
ScriptEarly == <<T(1000)>> \o Times(4, A)

\* The first iteration lasts 18 s, then 5 answers: score 5 when the placement
\* timer runs out.
ScriptDue == <<T(18000)>> \o Times(5, A)

\* 118 answers in the second iteration: two points from the win.
ScriptLate == <<T(1000)>> \o Times(118, A)

\* A first sprint at score 5, played to its end, then answers up to score 54:
\* the next sprint is the second one and giant_prob is positive.
ScriptSecond ==
    <<T(1000)>> \o Times(4, A) \o <<ASprint>>
    \o <<T(1000), T(1000), T(1000), T(4000), T(1000), T(1000)>>
    \o Times(49, A)

\* From there a second sprint at score 55 whose Burst frames all come out giant,
\* played to its end with no answer, then 5 iterations of 20 s whose scoops
\* come out giant: 10 giant frames, 20 units, in the ledger.
ScriptFull ==
    ScriptSecond \o <<ASprint>>
    \o <<T(1000), TG(1000), T(1000), T(4000), T(1000), T(1000)>>
    \o Times(5, TG(20000))

\* 54 answers in the second iteration, none starting a sprint: giant_prob is
\* positive and the next sprint is the first one.
ScriptMid == <<T(1000)>> \o Times(54, A)

\* A first sprint at score 5, played to its end, then answers up to score 14:
\* the next sprint is the second one and giant_prob is still 0.
ScriptTwice ==
    <<T(1000)>> \o Times(4, A) \o <<ASprint>>
    \o <<T(1000), T(1000), T(1000), T(4000), T(1000), T(1000)>>
    \o Times(9, A)

\* From the second position a second sprint at score 55, played to its end,
\* then 4 answers: one frame is left, no sprint is active, the sprint counter
\* is 2 and giant_prob is positive.
ScriptThird ==
    ScriptSecond \o <<ASprint>>
    \o <<T(1000), T(1000), T(1000), T(4000), T(1000), T(1000)>>
    \o Times(4, A)

\* n times an iteration of 16 s followed by one answer: every iteration
\* shrinks the scoop interval.
Ramped(n) == [k \in 1..(2 * n) |-> IF k % 2 = 1 THEN T(16000) ELSE A]

\* 34 shrinks: the next one takes the scoop interval below the floor.
ScriptFloor == Ramped(34)

\* 35 shrinks: the scoop interval is at the floor and the next shrink is due.
ScriptFloored == Ramped(35)

\* The position s taken as the start of a run of the model that is followed
\* for span seconds.
Positioned(s, span) ==
    [s EXCEPT !.handled = 0, !.deadline = s.clock + span * 1000]

Positions ==
    {Positioned(Replay(Fresh, sc), Horizon) : sc \in {<<>>, ScriptEarly}}
    \cup {Positioned(Replay(Fresh, sc), ShortHorizon) :
              sc \in {ScriptDue, ScriptLate, ScriptFull, ScriptSecond,
                      ScriptMid, ScriptTwice, ScriptFloor, ScriptFloored,
                      ScriptThird}}

----------------------------------------------------------------------------
(* The state machine *)

\* The variables take the values of record n.
Becomes(n) ==
    /\ score' = n.score
    /\ frames' = n.frames
    /\ scoops' = n.scoops
    /\ scoop_interval' = n.scoop_interval
    /\ last_scoop_time' = n.last_scoop_time
    /\ last_rate_incr' = n.last_rate_incr
    /\ in_sprint' = n.in_sprint
    /\ sprint_phase' = n.sprint_phase
    /\ sprints_count' = n.sprints_count
    /\ giant_prob' = n.giant_prob
    /\ sprint_start_t' = n.sprint_start_t
    /\ quick_placed' = n.quick_placed
    /\ countdown_start' = n.countdown_start
    /\ flag_sound_10' = n.flag_sound_10
    /\ game_over' = n.game_over
    /\ game_over_reason' = n.game_over_reason
    /\ clock' = n.clock
    /\ handled' = n.handled
    /\ deadline' = n.deadline
    /\ burst_t' = n.burst_t
    /\ last_place_t' = n.last_place_t
    /\ tally' = n.tally
    /\ ramp_t' = n.ramp_t
    /\ cooldown_t' = n.cooldown_t
    /\ sprint_t' = n.sprint_t
    /\ gen' = gen
    /\ ans' = ans
    /\ ev' = n.ev

\* The variables of the session take the values of record p.
StartsAt(p) ==
    /\ score = p.score
    /\ frames = p.frames
    /\ scoops = p.scoops
    /\ scoop_interval = p.scoop_interval
    /\ last_scoop_time = p.last_scoop_time
    /\ last_rate_incr = p.last_rate_incr
    /\ in_sprint = p.in_sprint
    /\ sprint_phase = p.sprint_phase
    /\ sprints_count = p.sprints_count
    /\ giant_prob = p.giant_prob
    /\ sprint_start_t = p.sprint_start_t
    /\ quick_placed = p.quick_placed
    /\ countdown_start = p.countdown_start
    /\ flag_sound_10 = p.flag_sound_10
    /\ game_over = p.game_over
    /\ game_over_reason = p.game_over_reason
    /\ clock = p.clock
    /\ handled = p.handled
    /\ deadline = p.deadline
    /\ burst_t = p.burst_t
    /\ last_place_t = p.last_place_t
    /\ tally = p.tally
    /\ ramp_t = p.ramp_t
    /\ cooldown_t = p.cooldown_t
    /\ sprint_t = p.sprint_t
    /\ ev = p.ev

Init ==
    \E p \in Positions :
        /\ StartsAt(p)
        /\ gen = NoGen
        /\ ans = NoAns

\* The number of random draws the placements of the coming iteration can use.
DrawsAhead ==
    IF ~in_sprint THEN 1
    ELSE IF sprint_phase = 2 THEN 4 - quick_placed
    ELSE IF sprint_phase = 3 THEN 1
    ELSE 0

\* The sequences of n draws from S, padded to length 4 with d.
DrawSeqs(S, n, d) ==
    {q \in [1..4 -> S \cup {d}] : \A k \in 1..4 : k > n => q[k] = d}

\* One loop iteration from after its events to the reading of `now` of the
\* next one.
Tick ==
    \E dt \in TickDurations, trig \in RandomDraws,
       rs \in DrawSeqs(RandomDraws, DrawsAhead, 5),
       sols \in DrawSeqs(SolutionDraws, DrawsAhead, 3) :
        /\ clock + dt <= deadline
        /\ Becomes(TickF(Cur, dt, rs, sols, trig))

\* A click on an answer button of frame i while the session runs.
Submit ==
    \E i \in 1..Len(frames), trig \in RandomDraws, r \in RandomDraws,
       sol \in SolutionDraws :
        \E val \in AnswerButtons(frames[i]) :
            /\ ~game_over
            /\ handled < MaxEvents
            /\ Clickable(frames, i)
            /\ Becomes(AnswerF(Cur, frames[i], val, trig, r, sol))

\* A click once the session is over that misses the New Game button (lines
\* 762-769): it is not read as an answer.
Click ==
    /\ game_over
    /\ handled < MaxEvents
    /\ Becomes([Cur EXCEPT !.handled = @ + 1,
                          !.ev = [NoEv EXCEPT !.op = "click",
                                                !.phase = sprint_phase]])

\* Mutant of Restart: the new session inherits the score and the sprint counter.
Restart_Inherit ==
    /\ game_over
    /\ Becomes([Fresh EXCEPT !.score = score,
                            !.sprints_count = sprints_count,
                            !.ev = [NoEv EXCEPT !.op = "restart",
                                                !.phase = sprint_phase]])

\* A click on the New Game button: run_game returns and main calls it again
\* (lines 749-752, 1067-1071).
Restart ==
    /\ game_over
    /\ Becomes([Fresh EXCEPT !.ev = [NoEv EXCEPT !.op = "restart",
                                                  !.phase = sprint_phase]])

Next == Tick \/ Submit \/ Click \/ Restart

Spec == Init /\ [][Next]_vars

----------------------------------------------------------------------------
(* The calls of generate_equation *)

\* The scores, solutions and random draws the calls are followed for: a score
\* in each band of steps and transformations; solutions at both ends of
\* VALID_SOLUTIONS and near 0; draws at both ends of each range and inside.
GenScores == {0, 10, 25, 35, 50, 65, 80, 119}
GenSolutions == {-20, -1, 1, 3, 20}
AddCDraws == {-5, 0, 5}
SubXDraws == {-3, 1, 3}
MulDraws == {2, 5}
SignDraws == {1, -1}

\* A call begins.
InitGen ==
    /\ \E sc \in GenScores, is_giant \in BOOLEAN,
          solution \in GenSolutions \cap VALID_SOLUTIONS :
          \E n \in StepChoices(sc) :
              gen = BeginGen(sc, is_giant, solution, n)
    /\ ans = NoAns
    /\ score = Fresh.score
    /\ frames = Fresh.frames
    /\ scoops = Fresh.scoops
    /\ scoop_interval = Fresh.scoop_interval
    /\ last_scoop_time = Fresh.last_scoop_time
    /\ last_rate_incr = Fresh.last_rate_incr
    /\ in_sprint = Fresh.in_sprint
    /\ sprint_phase = Fresh.sprint_phase
    /\ sprints_count = Fresh.sprints_count
    /\ giant_prob = Fresh.giant_prob
    /\ sprint_start_t = Fresh.sprint_start_t
    /\ quick_placed = Fresh.quick_placed
    /\ countdown_start = Fresh.countdown_start
    /\ flag_sound_10 = Fresh.flag_sound_10
    /\ game_over = Fresh.game_over
    /\ game_over_reason = Fresh.game_over_reason
    /\ clock = Fresh.clock
    /\ handled = Fresh.handled
    /\ deadline = Fresh.deadline
    /\ burst_t = Fresh.burst_t
    /\ last_place_t = Fresh.last_place_t
    /\ tally = Fresh.tally
    /\ ramp_t = Fresh.ramp_t
    /\ cooldown_t = Fresh.cooldown_t
    /\ sprint_t = Fresh.sprint_t
    /\ ev = Fresh.ev

\* The loop has a step to make and random.choice can give transformation t.
StepDue(t) ==
    /\ gen.pc = "steps"
    /\ gen.step_i < gen.steps
    /\ t \in possible_transforms(gen.score)

\* The variables of the session stay and the call becomes g.
GenBecomes(g) ==
    /\ gen' = g
    /\ UNCHANGED <<score, frames, scoops, scoop_interval, last_scoop_time,
                   last_rate_incr, in_sprint, sprint_phase, sprints_count,
                   giant_prob, sprint_start_t, quick_placed, countdown_start,
                   flag_sound_10, game_over, game_over_reason, clock, handled,
                   deadline, burst_t, last_place_t, tally, ramp_t, cooldown_t,
                   sprint_t, ans, ev>>

StepAddC ==
    /\ StepDue("ADD_C")
    /\ \E c \in AddCDraws : GenBecomes(ADD_C(gen, c))

StepSubX ==
    /\ StepDue("SUB_X")
    /\ \E c \in SubXDraws : GenBecomes(SUB_X(gen, c))

StepMul ==
    /\ StepDue("MUL")
    /\ \E sign \in SignDraws, f \in MulDraws : GenBecomes(MUL(gen, f * sign))

StepDiv2 ==
    /\ StepDue("DIV_2")
    /\ \E sign \in SignDraws : GenBecomes(DIV_2(gen, sign))

\* The loop is over: the call returns the equation and the solution.
Return ==
    /\ gen.pc = "steps"
    /\ gen.step_i = gen.steps
    /\ GenBecomes([gen EXCEPT !.pc = "done"])

NextGen == StepAddC \/ StepSubX \/ StepMul \/ StepDiv2 \/ Return

SpecGen == InitGen /\ [][NextGen]_vars

----------------------------------------------------------------------------
(* The calls of build_normal_answers and build_giant_answers *)

\* The solutions the calls are followed for (halves): the ends of the range,
\* 0.5 and -0.5 (correct + 1 is -correct, or the reverse), 1.0 and -1.0
\* (correct - 1 is 0, or the reverse), and 1.5.
AnsCorrects == {-20, -2, -1, 1, 2, 3, 20}

\* The values random.choice(VALID_SOLUTIONS) gives the loop of
\* build_normal_answers (halves).
AnsDraws == {-20, -6, -4, -3, -2, -1, 1, 2, 3, 4, 6, 15, 20}

\* The values it gives the loop of the primaries: with two pairs of opposites,
\* so that full has from 8 to 12 members.
PrimaryDraws == {-2, -1, 1, 2, 3, 4, 6}

\* The values it gives the padding loop: 1 is held in most lists, the others
\* are held in none unless they are the solution.
PadDraws == {1, 10, 12, -14, 16, -20}

\* The rotations random.shuffle is followed for.
ShuffleDraws == {0, 1}

\* The session is the one just constructed.
Constructed == StartsAt(Fresh) /\ gen = NoGen

\* A call begins: build_normal_answers(correct) stands before its loop, or
\* build_giant_answers(correct) before its first loop.
InitAns ==
    /\ \E correct \in AnsCorrects \cap VALID_SOLUTIONS :
          \/ \E r1, r2 \in RandomDraws :
                 ans = [NoAns EXCEPT !.pc = "fill", !.kind = "normal",
                                     !.correct = correct,
                                     !.set = NormalStart(correct, r1, r2)]
          \/ ans = [NoAns EXCEPT !.pc = "primaries", !.kind = "giant",
                                 !.correct = correct, !.set = {correct}]
    /\ Constructed

\* The variables of the session stay and the call becomes a.
AnsBecomes(a) ==
    /\ ans' = a
    /\ UNCHANGED <<score, frames, scoops, scoop_interval, last_scoop_time,
                   last_rate_incr, in_sprint, sprint_phase, sprints_count,
                   giant_prob, sprint_start_t, quick_placed, countdown_start,
                   flag_sound_10, game_over, game_over_reason, clock, handled,
                   deadline, burst_t, last_place_t, tally, ramp_t, cooldown_t,
                   sprint_t, gen, ev>>

\* One iteration of while len(ans_set) < 4 (lines 364-366)
NormalFill ==
    /\ ans.pc = "fill"
    /\ Cardinality(ans.set) < 4
    /\ \E c \in AnsDraws \cap VALID_SOLUTIONS :
          AnsBecomes([ans EXCEPT !.set = @ \cup {c}])

\* The loop is over (lines 368-370): the list is shuffled and cut at 4.
NormalReturn ==
    /\ ans.pc = "fill"
    /\ Cardinality(ans.set) >= 4
    /\ \E k \in ShuffleDraws :
          AnsBecomes([ans EXCEPT !.pc = "done",
                                !.list = Shuffled(Listed(ans.set), k),
                                !.out = Take(Shuffled(Listed(ans.set), k), 4)])

\* One iteration of while len(primaries) < 6 (lines 379-381)
GiantPrimary ==
    /\ ans.pc = "primaries"
    /\ Cardinality(ans.set) < 6
    /\ \E c \in PrimaryDraws \cap VALID_SOLUTIONS :
          AnsBecomes([ans EXCEPT !.set = @ \cup {c}])

\* The primaries are held (lines 383-390): full is listed and shuffled.
GiantMirror ==
    /\ ans.pc = "primaries"
    /\ Cardinality(ans.set) >= 6
    /\ \E k \in ShuffleDraws :
          AnsBecomes([ans EXCEPT !.pc = "pad",
                                !.list = Shuffled(Listed(Mirrored(ans.set)), k)])

\* One iteration of while len(final_list) < 12 (lines 391-394)
GiantPad ==
    /\ ans.pc = "pad"
    /\ Len(ans.list) < 12
    /\ \E c \in PadDraws \cap VALID_SOLUTIONS :
          AnsBecomes([ans EXCEPT !.list = PadWith(@, c)])

\* The loop is over (lines 396-398): the list is cut at 12 and shuffled.
GiantReturn ==
    /\ ans.pc = "pad"
    /\ Len(ans.list) >= 12
    /\ \E k \in ShuffleDraws :
          AnsBecomes([ans EXCEPT !.pc = "done",
                                !.out = Shuffled(Take(ans.list, 12), k)])

NextAns ==
    \/ NormalFill \/ NormalReturn
    \/ GiantPrimary \/ GiantMirror \/ GiantPad \/ GiantReturn

SpecAns == InitAns /\ [][NextAns]_vars

\* random.choice gives every value of VALID_SOLUTIONS again and again, so an
\* iteration that takes a value not yet held comes as long as there is one;
\* the steps that are no draws are taken.  Every step of NextAns that changes
\* the call is such an iteration or such a step.
SpecAnsFair == SpecAns /\ WF_vars(NextAns)

----------------------------------------------------------------------------
(* A sprint from its start to its end *)

\* An iteration of dt ms whose placement starts a sprint when the score allows.
TSprint(dt) == [op |-> "tick", dt |-> dt, i |-> 0, trig |-> 0, r |-> 5]

\* The scoop interval is at the floor, the score is 35 and the placement timer
\* has just started the first sprint (lines 842-852): sprint_start_t is now.
ScriptSprintPlaced == ScriptFloored \o <<TSprint(1000)>>

\* The scoop interval is at the floor and the answer that took the score to 35
\* has just started the first sprint (lines 777-784): sprint_start_t is
\* time.time().
ScriptSprintAnswered == ScriptFloor \o <<T(1000), ASprint>>

SprintPositions ==
    {Positioned(Replay(Fresh, sc), SprintHorizon) :
        sc \in {ScriptSprintPlaced, ScriptSprintAnswered}}

InitSprint ==
    \E p \in SprintPositions :
        /\ StartsAt(p)
        /\ gen = NoGen
        /\ ans = NoAns

\* A loop iteration while the sprint is active and the session runs.
SprintTick == in_sprint /\ ~game_over /\ Tick

\* The player takes the frame at the top of the ledger and gives its solution
\* (a wrong answer ends the session, and the sprint with it).
SprintSubmit ==
    /\ in_sprint /\ ~game_over
    /\ handled < MaxEvents
    /\ Len(frames) > 0
    /\ \E trig \in RandomDraws, r \in RandomDraws, sol \in SolutionDraws :
          Becomes(AnswerF(Cur, frames[1], frames[1].correct, trig, r, sol))

NextSprint == SprintTick \/ SprintSubmit

\* An iteration of the followed sprint can be made: ENABLED <<SprintTick>>_vars,
\* written out (an iteration always adds to the clock).
TickPossible ==
    /\ in_sprint /\ ~game_over
    /\ \E dt \in TickDurations : clock + dt <= deadline

\* The loop of run_game iterates as long as the program runs (line 743), so
\* an iteration that can be made is made: weak fairness of SprintTick.  The
\* clock is bounded by the deadline, so a run makes finitely many iterations
\* and WF_vars(SprintTick), which is
\* []<>~ENABLED <<SprintTick>>_vars \/ []<><<SprintTick>>_vars, comes to its
\* first disjunct.
SpecSprint == InitSprint /\ [][NextSprint]_vars /\ []<>~TickPossible

----------------------------------------------------------------------------
(* A session whose player never answers *)

InitIdle ==
    /\ StartsAt(Positioned(Fresh, IdleHorizon))
    /\ gen = NoGen
    /\ ans = NoAns

\* A loop iteration with no click in its events, while the session runs.
IdleTick == ~game_over /\ Tick

\* ENABLED <<IdleTick>>_vars, written out.
IdlePossible ==
    /\ ~game_over
    /\ \E dt \in TickDurations : clock + dt <= deadline

\* The loop iterates as long as the program runs (line 743): weak fairness of
\* IdleTick, which the bounded clock brings to []<>~ENABLED <<IdleTick>>_vars.
SpecIdle == InitIdle /\ [][IdleTick]_vars /\ []<>~IdlePossible

----------------------------------------------------------------------------
(* A SidebarManager on its own *)

\* The frames remove_equation may be given: the members of the ledger, and
\* frames that are not in it (removed before, or never added).
RemovalArgs ==
    {frames[i] : i \in 1..Len(frames)}
    \cup {EquationFrame(id, 3, g) :
             id \in (0..(MaxLedger - 1)) \ {frames[i].id : i \in 1..Len(frames)},
             g \in BOOLEAN}

\* SidebarManager() (lines 425-426): the ledger is empty.
InitSidebar == Constructed /\ ans = NoAns

\* The ledger becomes fs, n frames have been created, e tells the call.
SidebarBecomes(fs, n, e) ==
    /\ frames' = fs
    /\ scoops' = n
    /\ ev' = e
    /\ UNCHANGED <<score, scoop_interval, last_scoop_time,
                   last_rate_incr, in_sprint, sprint_phase, sprints_count,
                   giant_prob, sprint_start_t, quick_placed, countdown_start,
                   flag_sound_10, game_over, game_over_reason, clock, handled,
                   deadline, burst_t, last_place_t, tally, ramp_t, cooldown_t,
                   sprint_t, gen, ans>>

\* add_equation(frame) with a frame just created (lines 428-429)
SidebarAdd ==
    /\ scoops < MaxLedger
    /\ \E g \in BOOLEAN :
          LET f == EquationFrame(scoops, 3, g)
          IN  SidebarBecomes(add_equation(frames, f), scoops + 1,
                             [NoEv EXCEPT !.op = "add", !.fid = f.id,
                                          !.sol = f.correct, !.giant = f.is_giant])

\* remove_equation(frame) (lines 431-433)
SidebarRemove ==
    \E f \in RemovalArgs :
        SidebarBecomes(remove_equation(frames, f), scoops,
                       [NoEv EXCEPT !.op = "remove", !.fid = f.id,
                                    !.sol = f.correct, !.giant = f.is_giant])

NextSidebar == SidebarAdd \/ SidebarRemove

SpecSidebar == InitSidebar /\ [][NextSidebar]_vars

----------------------------------------------------------------------------
(* Properties *)

Won == game_over /\ game_over_reason = WON_REASON
Lost == game_over /\ game_over_reason \in {WRONG_REASON, OVERFLOW_REASON}
Pressure == total_units(frames)

\* The frames of fs other than the one of identity id, in order
Without(fs, id) == SelectSeq(fs, LAMBDA x : x.id # id)

\* The frames of fs that existed when n scoops had been placed, in order
OlderThan(fs, n) == SelectSeq(fs, LAMBDA x : x.id < n)

\* C1: once the session is over, no tick and no click changes the score, the
\* ledger, the number of scoops placed, the sprint state, the scoop interval
\* or the reason; only a restart, which constructs a new session, does.
C1_TerminalFrozen ==
    [][(game_over /\ ev'.op # "restart") =>
          /\ game_over'
          /\ game_over_reason' = game_over_reason
          /\ score' = score
          /\ frames' = frames
          /\ scoops' = scoops
          /\ in_sprint' = in_sprint
          /\ sprint_phase' = sprint_phase
          /\ sprints_count' = sprints_count
          /\ quick_placed' = quick_placed
          /\ scoop_interval' = scoop_interval]_vars

\* C1 witness: an iteration has run on a session that ended in the middle of a
\* sprint with frames in the ledger.
C1_Witness ==
    /\ game_over
    /\ ev.op = "tick"
    /\ ~ev.overflow
    /\ in_sprint
    /\ Len(frames) > 0

\* C2: an iteration that begins with the session running ends it exactly when
\* the pressure at the capacity check is above 20, and then the reason is the
\* overflow one.
C2_CapacityCheck ==
    [][(ev'.op = "tick" /\ ~game_over) =>
          /\ game_over' <=> Pressure > 20
          /\ game_over' => game_over_reason' = OVERFLOW_REASON]_vars

\* C2 witness: the capacity check has just ended a session.
C2_Witness ==
    /\ ev.op = "tick"
    /\ ev.overflow
    /\ Pressure > 20
    /\ game_over_reason = OVERFLOW_REASON

\* C3: a submission whose value differs from the frame's solution ends the
\* session with the wrong-answer reason and leaves score and ledger as they were.
C3_WrongAnswerLoses ==
    [][(ev'.op = "submit" /\ ev'.val # ev'.sol) =>
          /\ game_over'
          /\ game_over_reason' = WRONG_REASON
          /\ score' = score
          /\ frames' = frames]_vars

\* C3 witness: a wrong value has been submitted.
C3_Witness ==
    /\ ev.op = "submit"
    /\ ev.val # ev.sol
    /\ game_over_reason = WRONG_REASON

\* C4: a submission of the frame's solution adds exactly 1 to the score and
\* takes exactly the answered frame out of the ledger, the frames that were
\* there keeping their order; and within a session the score changes only so.
C4_CorrectAnswerScores ==
    [][/\ (ev'.op = "submit" /\ ev'.val = ev'.sol) =>
            /\ score' = score + 1
            /\ Len(Without(frames, ev'.fid)) = Len(frames) - 1
            /\ OlderThan(frames', scoops) = Without(frames, ev'.fid)
       /\ (score' # score /\ ev'.op # "restart") =>
            /\ ev'.op = "submit"
            /\ ev'.val = ev'.sol]_vars

\* C4 witness: a frame has been answered correctly from between two others.
C4_Witness ==
    /\ ev.op = "submit"
    /\ ev.val = ev.sol
    /\ \E i, j \in 1..Len(frames) :
           frames[i].id < ev.fid /\ ev.fid < frames[j].id

\* C5: the session becomes Won exactly by a correct submission that brings the
\* score to 120; the score never exceeds 120 and a session at 120 is Won.
C5_WinAt120 ==
    [][/\ (Won' /\ ~Won) <=>
            (~game_over /\ ev'.op = "submit" /\ ev'.val = ev'.sol /\ score' = 120)
       /\ score' <= 120
       /\ score' = 120 => Won']_vars

\* C5 witness: a session won at score 120.
C5_Witness == Won /\ score = 120 /\ ev.op = "submit"

\* C6: within a session the sprint phase stays or moves to the next phase of
\* the cycle 0, 1, 2, 3, 4, 5, 0.
C6_PhaseCycle ==
    [][ev'.op # "restart" =>
          \/ sprint_phase' = sprint_phase
          \/ sprint_phase' = (sprint_phase + 1) % 6]_vars

\* C6 witness: the Cooldown phase has just returned the sprint to Inactive.
C6_Witness ==
    /\ ev.op = "tick"
    /\ ev.phase = 5
    /\ sprint_phase = 0
    /\ ~in_sprint

C8_BurstSpread ==
    [][(ev'.op = "tick" /\ ev'.burst > 0) =>
          /\ \A k \in (quick_placed + 1)..quick_placed' :
                 (clock - burst_t) * 8 >= k * scoop_interval
          /\ ev'.burst < 4]_vars

\* C9: within a session a sprint begins only from Inactive, on a running
\* session whose score ends in 5; it adds 1 to the sprint counter and clears
\* the Burst count, and the counter changes in no other way.
C9_SprintStart ==
    [][ev'.op # "restart" =>
          /\ (sprint_phase' = 1 /\ sprint_phase # 1) =>
                /\ sprint_phase = 0
                /\ ~in_sprint
                /\ in_sprint'
                /\ ~game_over
                /\ ~game_over'
                /\ score' % 10 = 5
                /\ sprints_count' = sprints_count + 1
                /\ quick_placed' = 0
          /\ sprints_count' # sprints_count =>
                (sprint_phase = 0 /\ sprint_phase' = 1)
          /\ in_sprint' <=> sprint_phase' # 0]_vars

\* C9 witness: a cadence placement at a score ending in 5 has begun a sprint.
C9_Witness ==
    /\ ev.op = "tick"
    /\ ev.cadence
    /\ ev.started
    /\ sprint_phase = 1
    /\ score % 10 = 5

\* C10: in an iteration of a running session with no sprint active, a cadence
\* scoop is placed exactly when the time since the last placement of any kind
\* (or no placement yet) is at least the scoop interval; it appends one frame
\* and sets the placement timer to now; during a sprint there is none.
C10_CadenceRule ==
    [][ev'.op = "tick" =>
          /\ (~game_over /\ ~ev'.overflow /\ ~in_sprint) =>
                (ev'.cadence <=>
                    (last_place_t < 0 \/ clock - last_place_t >= scoop_interval))
          /\ ev'.cadence =>
                /\ Len(frames') = Len(frames) + 1
                /\ SubSeq(frames', 1, Len(frames)) = frames
                /\ last_scoop_time' = clock + INITIAL_SCOOP_INTERVAL
          /\ in_sprint => ~ev'.cadence]_vars

\* C11: a sprint start adds the increment to giant_prob, up to the maximum,
\* exactly when the sprint counter it has just incremented is at least 2, and
\* leaves giant_prob as it was otherwise.
C11_GiantProbThreshold ==
    [][ev'.started =>
          giant_prob' = IF sprints_count' >= 2
                        THEN Min(GIANT_SCOOP_MAX_PROB, giant_prob + GIANT_PROB_INCREMENT)
                        ELSE giant_prob]_vars

\* C11, as the code has it: a sprint start adds the increment to giant_prob,
\* up to the maximum, exactly when giant_prob is positive already, whatever
\* the sprint counter; giant_prob is positive from score 50 on and only then.
C11_GiantProbPositive ==
    [][/\ ev'.started =>
             giant_prob' = IF giant_prob > 0
                           THEN Min(GIANT_SCOOP_MAX_PROB, giant_prob + GIANT_PROB_INCREMENT)
                           ELSE giant_prob
       /\ (giant_prob' # giant_prob /\ ev'.op # "restart") =>
             \/ ev'.started
             \/ ev'.op = "submit" /\ score' >= 50 /\ giant_prob' = GIANT_SCOOP_BASE_PROB]_vars

\* C11 witness: the first sprint of a session has raised giant_prob.
C11_Witness ==
    /\ ev.started
    /\ sprints_count = 1
    /\ giant_prob = GIANT_SCOOP_BASE_PROB + GIANT_PROB_INCREMENT

\* C12: within a session the scoop interval never grows and lies between the
\* floor (0.5 s) and its initial value (20 s); when it changes it becomes nine
\* tenths of what it was, or the floor if that is below the floor.
C12_IntervalMonotone ==
    [][/\ scoop_interval' >= MIN_SCOOP_INTERVAL
       /\ scoop_interval' <= INITIAL_SCOOP_INTERVAL
       /\ ev'.op # "restart" =>
             /\ scoop_interval' <= scoop_interval
             /\ scoop_interval' # scoop_interval =>
                   /\ ev'.op = "tick"
                   /\ scoop_interval' =
                          Max(MIN_SCOOP_INTERVAL,
                              (scoop_interval * (100 - RATE_INCREASE_PERCENT)) \div 100)]_vars

\* C12 witness: a shrink has been cut at the floor.
C12_Witness ==
    /\ ev.op = "tick"
    /\ ev.ramp
    /\ scoop_interval = MIN_SCOOP_INTERVAL
    /\ last_rate_incr = clock - 1000 + INITIAL_SCOOP_INTERVAL

\* C13: the scoop interval does not shrink before 15 s have passed since the
\* session was constructed, nor before 15 s have passed since it last shrank.
C13_RampTiming ==
    [][(ev'.op = "tick" /\ ev'.ramp) =>
          IF ramp_t < 0
          THEN clock >= RATE_INCREASE_INTERVAL
          ELSE clock - ramp_t >= RATE_INCREASE_INTERVAL]_vars

\* C14: the Cooldown phase returns the sprint to Inactive with no sprint
\* active, and no cadence scoop is placed before one scoop interval has passed
\* since the last Cooldown.
C14_CooldownTimer ==
    [][ev'.op = "tick" =>
          /\ (ev'.phase = 5 /\ ~game_over) =>
                (sprint_phase' = 0 /\ ~in_sprint')
          /\ (ev'.cadence /\ cooldown_t >= 0) =>
                clock - cooldown_t >= scoop_interval]_vars

\* C15: the stack limit is checked after the placements of the iteration, so
\* an iteration of a running session never ends with the pressure above 20
\* and the session still running.
C15_TickOrder == (ev.op = "tick" /\ Pressure > MAX_EQUATION_UNITS) => game_over

\* C15, as the code has it: the stack limit is checked on the ledger the
\* submissions of the iteration left, before anything is placed: above 20 the
\* session ends and the iteration places nothing and shrinks nothing; at 20 or
\* below the iteration does not end the session, whatever it places, and a
\* pressure it takes above 20 is left to the check of the next iteration.
C15_CheckBeforePlacement ==
    [][ev'.op = "tick" =>
          /\ (~game_over /\ Pressure > MAX_EQUATION_UNITS) =>
                /\ game_over'
                /\ game_over_reason' = OVERFLOW_REASON
                /\ frames' = frames
                /\ scoops' = scoops
                /\ scoop_interval' = scoop_interval
                /\ sprint_phase' = sprint_phase
          /\ (~game_over /\ Pressure <= MAX_EQUATION_UNITS) => ~game_over'
          /\ handled' = 0]_vars

\* C15 witness: an iteration has placed a cadence scoop that takes the
\* pressure above 20, and the session is still running.
C15_Witness ==
    /\ ev.op = "tick"
    /\ ev.cadence
    /\ Pressure > MAX_EQUATION_UNITS
    /\ ~game_over

C17_LeadPhase ==
    [][(ev'.op = "tick" /\ ev'.phase = 1 /\ ~game_over /\ ~ev'.overflow) =>
          /\ sprint_phase' = 2 <=>
                \/ Len(frames) = 0
                \/ (clock - sprint_t) * 100 > scoop_interval * 5 * 185
          /\ sprint_phase' \in {1, 2}
          /\ frames' = frames
          /\ scoops' = scoops]_vars

\* C18: a step signals a milestone exactly when it is a correct submission
\* that brings the score to a positive multiple of 10.
C18_Milestone ==
    [][ev'.milestone <=>
          /\ ev'.op = "submit"
          /\ ev'.correct
          /\ score' = score + 1
          /\ score' > 0
          /\ score' % 10 = 0]_vars

\* C18 witness: a correct submission has brought the score to a multiple of 10
\* and signalled the milestone.
C18_Witness ==
    /\ ev.op = "submit"
    /\ ev.milestone
    /\ score > 0
    /\ score % 10 = 0
    /\ ~flag_sound_10

\* C19: a restart happens only once the session is over, and the session it
\* begins has score 0, an empty ledger, no scoop placed, the scoop interval
\* at 20 s, no sprint (phase Inactive, counter 0, Burst count 0), giant_prob 0,
\* and is running with an empty reason.
C19_RestartInitial ==
    [][ev'.op = "restart" =>
          /\ game_over
          /\ score' = 0
          /\ frames' = <<>>
          /\ scoops' = 0
          /\ scoop_interval' = INITIAL_SCOOP_INTERVAL
          /\ ~in_sprint'
          /\ sprint_phase' = 0
          /\ sprints_count' = 0
          /\ quick_placed' = 0
          /\ giant_prob' = 0
          /\ ~flag_sound_10'
          /\ ~game_over'
          /\ game_over_reason' = ""
          /\ clock' = 0
          /\ last_scoop_time' = 0
          /\ last_rate_incr' = 0]_vars

\* C19 witness: a session that ended in the middle of a sprint has been
\* restarted.
C19_Witness ==
    /\ ev.op = "restart"
    /\ ev.phase # 0
    /\ score = 0
    /\ ~game_over

\* C20: from the start of a call of generate_equation to its return, after
\* every step, the two sides take the same value at x = solution.
C20_SolutionKept ==
    gen.pc # "idle" =>
        evaluate_side(gen.aL, gen.bL, gen) = evaluate_side(gen.aR, gen.bR, gen)

\* C20 witness: a call has returned after four steps, among them a
\* subtraction of x, a multiplication and a division.
C20_Witness ==
    /\ gen.pc = "done"
    /\ gen.step_i = 4
    /\ \E i, j, k \in 1..4 :
           gen.done[i] = "SUB_X" /\ gen.done[j] = "MUL" /\ gen.done[k] = "DIV_2"
    /\ gen.aL # AUnit

\* C21: the solution of a call is a non-zero multiple of 0.5 from -10 to 10,
\* and VALID_SOLUTIONS has exactly 39 values.
C21_Domain39 ==
    /\ Cardinality(VALID_SOLUTIONS) = 39
    /\ gen.pc # "idle" =>
          (gen.solution \in -20..20 /\ gen.solution # 0)

\* C21, as the code has it: VALID_SOLUTIONS is the 40 non-zero multiples of
\* 0.5 from -10 to 10, both ends included, and the solution of a call is one
\* of them.
C21_Domain40 ==
    /\ Cardinality(VALID_SOLUTIONS) = 40
    /\ VALID_SOLUTIONS = {v \in -20..20 : v # 0}
    /\ gen.pc # "idle" =>
          /\ gen.solution \in VALID_SOLUTIONS
          /\ gen.solution \in -20..20
          /\ gen.solution # 0

\* C21 witness: a call has returned with the solution 10.0, the upper end of
\* the range.
C21_Witness ==
    /\ gen.pc = "done"
    /\ gen.solution = 20
    /\ gen.solution \in VALID_SOLUTIONS

\* The transformations of the band of score sc: addition of a constant below
\* 10, subtraction of a multiple of x from 10 to 24, both from 25 to 34, with
\* the multiplication from 35 to 64, with the division from 65 on.
Band(sc) ==
    CASE sc < 10 -> {"ADD_C"}
      [] sc >= 10 /\ sc < 25 -> {"SUB_X"}
      [] sc >= 25 /\ sc < 35 -> {"ADD_C", "SUB_X"}
      [] sc >= 35 /\ sc < 65 -> {"ADD_C", "SUB_X", "MUL"}
      [] sc >= 65 -> {"ADD_C", "SUB_X", "MUL", "DIV_2"}

\* At every score from 0 to 120 possible_transforms is the band of the score.
BandsAsCoded == \A sc \in 0..WIN_SCORE : possible_transforms(sc) = Band(sc)

\* C22: at every score from 0 to 120 the transformations a call may apply are
\* those of the band of the score; every step of a call applies one of them;
\* a multiplication multiplies the four coefficients by one of 2, 3, 4, 5 or
\* its opposite, and a division divides them by 2 or -2.
C22_Bands ==
    [][/\ BandsAsCoded
       /\ gen'.step_i = gen.step_i + 1 =>
             LET t == gen'.done[gen'.step_i]
             IN  /\ t \in Band(gen.score)
                 /\ t = "MUL" =>
                       \E f \in {-5, -4, -3, -2, 2, 3, 4, 5} :
                           /\ gen'.aL = gen.aL * f /\ gen'.bL = gen.bL * f
                           /\ gen'.aR = gen.aR * f /\ gen'.bR = gen.bR * f
                 /\ t = "DIV_2" =>
                       \E f \in {-2, 2} :
                           /\ gen'.aL * f = gen.aL /\ gen'.bL * f = gen.bL
                           /\ gen'.aR * f = gen.aR /\ gen'.bR * f = gen.bR]_vars

\* C22 witness: a call at score 65, the first of the last band, has returned
\* after a division and a multiplication.
C22_Witness ==
    /\ gen.pc = "done"
    /\ gen.score = 65
    /\ \E i, j \in 1..Len(gen.done) :
           gen.done[i] = "DIV_2" /\ gen.done[j] = "MUL"

\* C23: a transformation a call may apply at a score it may apply at every
\* higher score.
C23_Cumulative ==
    gen.pc # "idle" =>
        \A hi \in gen.score..WIN_SCORE :
            possible_transforms(gen.score) \subseteq possible_transforms(hi)

\* From score 10 on no transformation is lost as the score grows.
KeptFrom10 ==
    \A lo, hi \in 10..WIN_SCORE :
        lo <= hi => possible_transforms(lo) \subseteq possible_transforms(hi)

\* What a call may apply below score 10 it may not apply from 10 to 24, and may
\* apply again from 25 on.
AdditionSuspended ==
    /\ \A lo \in 0..9, hi \in 25..WIN_SCORE :
           possible_transforms(lo) \subseteq possible_transforms(hi)
    /\ \A lo \in 0..9, hi \in 10..24 :
           possible_transforms(lo) \cap possible_transforms(hi) = {}

\* C23, as the code has it: from score 10 on no transformation is lost as the
\* score grows; the addition of a constant, the only transformation below 10,
\* is not applied from 10 to 24 and comes back at 25.
C23_CumulativeFrom10 ==
    /\ KeptFrom10
    /\ AdditionSuspended
    /\ (gen.pc # "idle" /\ gen.score \in 10..24) =>
           \A i \in 1..Len(gen.done) : gen.done[i] # "ADD_C"

\* C23 witness: a call at score 10 has returned after a subtraction of x.
C23_Witness ==
    /\ gen.pc = "done"
    /\ gen.score = 10
    /\ Len(gen.done) >= 1
    /\ \A i \in 1..Len(gen.done) : gen.done[i] = "SUB_X"

\* The members of list l are pairwise distinct and none is 0.
DistinctNonZero(l) ==
    /\ \A i, j \in 1..Len(l) : l[i] = l[j] => i = j
    /\ \A i \in 1..Len(l) : l[i] # 0

\* C24: build_normal_answers returns exactly 4 values, pairwise distinct and
\* none 0, among them the solution and its opposite, and exactly one of the
\* four is the solution.
C24_NormalAnswers ==
    (ans.pc = "done" /\ ans.kind = "normal") =>
        /\ Len(ans.out) = 4
        /\ DistinctNonZero(ans.out)
        /\ ans.correct \in Members(ans.out)
        /\ -ans.correct \in Members(ans.out)
        /\ Cardinality({i \in 1..Len(ans.out) : ans.out[i] = ans.correct}) = 1

\* A call for the solution 1.0 whose candidate 0 was refused and whose loop
\* drew 7.5 has returned.
C24_Witness ==
    /\ ans.pc = "done" /\ ans.kind = "normal"
    /\ ans.correct = 2
    /\ 15 \in Members(ans.out)

\* C25: build_giant_answers returns exactly 12 values, pairwise distinct and
\* none 0, among them the solution and its opposite, also when the primaries
\* and their opposites are fewer than 12 and the list was padded.
C25_GiantAnswers ==
    (ans.pc = "done" /\ ans.kind = "giant") =>
        /\ Len(ans.out) = 12
        /\ DistinctNonZero(ans.out)
        /\ ans.correct \in Members(ans.out)
        /\ -ans.correct \in Members(ans.out)

\* A call whose primaries held two pairs of opposites, so that full had 8
\* members and 4 were padded, has returned.
C25_Witness ==
    /\ ans.pc = "done" /\ ans.kind = "giant"
    /\ {-2, -1, 1, 2} \subseteq ans.set
    /\ Cardinality(Mirrored(ans.set)) = 8
    /\ Len(ans.out) = 12

\* The values a loop that is not over holds.
Held ==
    IF ans.pc = "pad" THEN Members(ans.list) ELSE ans.set

\* A loop of a builder is at its test and the test lets it go on.
Looping ==
    \/ ans.pc = "fill" /\ Cardinality(ans.set) < 4
    \/ ans.pc = "primaries" /\ Cardinality(ans.set) < 6
    \/ ans.pc = "pad" /\ Len(ans.list) < 12

\* C26: the construction of an answer set terminates: as long as a loop goes
\* on, VALID_SOLUTIONS has a value the loop does not hold yet, and under fair
\* draws every call returns.
C26_Terminates ==
    /\ [](Looping => \E v \in VALID_SOLUTIONS : v \notin Held)
    /\ <>(ans.pc = "done")

\* The padding loop of a call for the solution -10.0 stands one value short,
\* after the primaries and their opposites gave 8.
C26_Witness ==
    /\ ans.pc = "pad" /\ ans.correct = -20
    /\ Cardinality(Mirrored(ans.set)) = 8
    /\ Len(ans.list) = 11

\* The frame the last call of add_equation or remove_equation was given,
\* read after the call.
GivenFrame == EquationFrame(ev'.fid, ev'.sol, ev'.giant)

\* fs without its j-th frame
WithoutAt(fs, j) ==
    [i \in 1..(Len(fs) - 1) |-> IF i < j THEN fs[i] ELSE fs[i + 1]]

\* C27: remove_equation with a frame that is not in the ledger changes
\* neither the sequence nor the total of units; with a member it takes out
\* exactly that frame, the others staying in their order; and removing the
\* same frame once more changes nothing.
C27_Remove ==
    [][ev'.op = "remove" =>
          /\ (\A i \in 1..Len(frames) : frames[i] # GivenFrame) =>
                 /\ frames' = frames
                 /\ total_units(frames') = total_units(frames)
          /\ \A j \in 1..Len(frames) :
                 frames[j] = GivenFrame =>
                    /\ frames' = WithoutAt(frames, j)
                    /\ total_units(frames') = total_units(frames) - units(GivenFrame)
          /\ remove_equation(frames', GivenFrame) = frames']_vars

\* A frame removed before was given to remove_equation again while the ledger
\* held two frames like it.
C27_Witness ==
    /\ ev.op = "remove"
    /\ Len(frames) = 2
    /\ \A i \in 1..Len(frames) :
          /\ frames[i].id # ev.fid
          /\ frames[i].is_giant = ev.giant /\ frames[i].correct = ev.sol
    /\ ev.fid < scoops

\* remaining_units (line 1000): what the sidebar shows as "Remaining".
remaining_units == MAX_EQUATION_UNITS - total_units(frames)

\* C28: after an iteration that leaves the session running, the remaining
\* capacity shown is not negative.
C28_RemainingNonNegative ==
    (ev.op = "tick" /\ ~game_over) => remaining_units >= 0

\* C28, as the code has it: the stack limit is checked before the iteration
\* places anything, so after an iteration that leaves the session running the
\* frames that were there before it weigh at most 20, and the remaining
\* capacity shown is negative by no more than the units of the frames the
\* iteration placed itself.
C28_RemainingAfterTick ==
    [][(ev'.op = "tick" /\ ~game_over') =>
          /\ total_units(OlderThan(frames', scoops)) <= MAX_EQUATION_UNITS
          /\ remaining_units' >=
                 -(total_units(frames') - total_units(OlderThan(frames', scoops)))]_vars

\* C28 witness: the placement timer has placed a giant scoop on a ledger that
\* was full, and the sidebar of the running session shows a remaining capacity
\* of -2.
C28_Witness ==
    /\ ev.op = "tick" /\ ev.cadence
    /\ ~game_over
    /\ remaining_units = -2

\* C29: a sprint that is active, in whatever phase, is Inactive again later
\* unless the session ends first, whatever the player answers meanwhile.
C29_SprintEnds == (sprint_phase # 0) ~> (sprint_phase = 0 \/ game_over)

\* C29 witness: a sprint has come to its end in a running session whose
\* player answered nothing during it: the Lead ran out of its budget, and the
\* frames of the Burst and of the Giant phase are in the ledger.
C29_Witness ==
    /\ ev.op = "tick" /\ ev.phase = 5
    /\ sprint_phase = 0 /\ ~in_sprint
    /\ ~game_over
    /\ score = 35
    /\ tally.normal = 4 /\ tally.giant = 1

\* C30: in a session whose player never answers the score stays 0 and no
\* sprint starts, the pressure never goes down, and the session ends Lost
\* with the overflow reason.
C30_IdleLoses ==
    /\ [](score = 0 /\ ~in_sprint /\ sprint_phase = 0)
    /\ [][Pressure' >= Pressure]_vars
    /\ <>(game_over /\ game_over_reason = OVERFLOW_REASON)

\* C30 witness: the capacity check has ended a session at score 0 whose
\* ledger holds 21 frames, all placed by the timer.
C30_Witness ==
    /\ ev.op = "tick" /\ ev.overflow
    /\ game_over /\ game_over_reason = OVERFLOW_REASON
    /\ score = 0
    /\ Len(frames) = 21 /\ Pressure = 21
    /\ sprints_count = 0

\* The values of x the two sides of the equation are compared at (halves):
\* twice the range of the solutions.
XRange == (-40)..40

\* C31: from the start of a call of generate_equation to its return, after
\* every step, the x-coefficients of the two sides differ, so the equation is
\* no identity and no contradiction, and the two sides take the same value at
\* no x but the solution.
C31_CoefficientsDiffer ==
    gen.pc # "idle" =>
        /\ gen.aL - gen.aR # 0
        /\ \A x \in XRange :
              evaluate_side(gen.aL, gen.bL, [gen EXCEPT !.solution = x])
                  = evaluate_side(gen.aR, gen.bR, [gen EXCEPT !.solution = x])
              => x = gen.solution

\* C31 witness: a call has returned after a subtraction of x and a division
\* that no multiplication made up for: both sides have an x-term and the
\* coefficients differ by a half or less.
C31_Witness ==
    /\ gen.pc = "done"
    /\ \E i, j \in 1..Len(gen.done) : gen.done[i] = "SUB_X" /\ gen.done[j] = "DIV_2"
    /\ gen.aR # 0
    /\ 2 * Abs(gen.aL - gen.aR) <= AUnit

====
